---- MODULE Spec2Model ----
(***************************************************************************)
(* Model of the tic-tac-toe game of src/src/App.tsx.  The engine:          *)
(* checkWinner (outcome evaluator), getAvailableMoves, minimax (alpha-beta *)
(* search that writes the caller's board and undoes the write) and         *)
(* getBestMove (difficulty-weighted move selection).  The page: makeMove,  *)
(* resetGame, resetScores, setGameMode, setDifficulty and the effect that  *)
(* sets the timer of the computer's move.                                  *)
(*                                                                         *)
(* A JavaScript array of 9 cells is a function over 0..8.  The JavaScript  *)
(* value null is the string "null"; a function of the engine that writes   *)
(* its board argument in place returns, besides its value, the board as    *)
(* it is left when the call returns.                                       *)
(***************************************************************************)
EXTENDS Integers, Sequences, FiniteSets, TLC

VARIABLES gameState, input, call, ret, timers

vars == <<gameState, input, call, ret, timers>>

----------------------------------------------------------------------------
(* Values *)

Null == "null"

Marks == {"X", "O"}

Player == {"X", "O", Null}

Cells == 0 .. 8

Boards == [Cells -> Player]

\* -Infinity and Infinity of minimax's default window and of the running
\* maxEval / minEval / bestValue: integers beyond every score (scores lie
\* in -19 .. 19 for the depths used here).
Infinity == 1000

\* JavaScript undefined, the value of availableMoves[0] on an empty array.
Undefined == -1

Max(a, b) == IF a >= b THEN a ELSE b

Min(a, b) == IF a <= b THEN a ELSE b

emptyBoard == [i \in Cells |-> Null]

initialState ==
    [board |-> emptyBoard,
     currentPlayer |-> "X",
     winner |-> Null,
     winningLine |-> <<>>,
     gameMode |-> "pvp",
     difficulty |-> "medium",
     scores |-> [X |-> 0, O |-> 0, ties |-> 0]]

winningCombinations ==
    << <<0, 1, 2>>, <<3, 4, 5>>, <<6, 7, 8>>,
       <<0, 3, 6>>, <<1, 4, 7>>, <<2, 5, 8>>,
       <<0, 4, 8>>, <<2, 4, 6>> >>

----------------------------------------------------------------------------
(* checkWinner: first combination, in table order, whose three cells hold  *)
(* the same non-null mark; otherwise tie when no cell is null; otherwise   *)
(* no winner.  winningLine null is the empty sequence.                     *)

RECURSIVE checkCombinations(_, _)
\* checkCombinations with the loop ended one combination early.
checkCombinationsSkipsLast(board, k) ==
    IF k >= Len(winningCombinations)
    THEN IF \A i \in Cells : board[i] # Null
         THEN [winner |-> "tie", winningLine |-> <<>>]
         ELSE [winner |-> Null, winningLine |-> <<>>]
    ELSE LET combination == winningCombinations[k]
             a == combination[1]
             b == combination[2]
             c == combination[3]
         IN  IF board[a] # Null /\ board[a] = board[b] /\ board[a] = board[c]
             THEN [winner |-> board[a], winningLine |-> combination]
             ELSE checkCombinations(board, k + 1)

\* checkCombinations with board.some in place of board.every.
checkCombinationsTieOnSome(board, k) ==
    IF k > Len(winningCombinations)
    THEN IF \E i \in Cells : board[i] # Null
         THEN [winner |-> "tie", winningLine |-> <<>>]
         ELSE [winner |-> Null, winningLine |-> <<>>]
    ELSE LET combination == winningCombinations[k]
             a == combination[1]
             b == combination[2]
             c == combination[3]
         IN  IF board[a] # Null /\ board[a] = board[b] /\ board[a] = board[c]
             THEN [winner |-> board[a], winningLine |-> combination]
             ELSE checkCombinations(board, k + 1)

checkCombinations(board, k) ==
    IF k > Len(winningCombinations)
    THEN IF \A i \in Cells : board[i] # Null
         THEN [winner |-> "tie", winningLine |-> <<>>]
         ELSE [winner |-> Null, winningLine |-> <<>>]
    ELSE LET combination == winningCombinations[k]
             a == combination[1]
             b == combination[2]
             c == combination[3]
         IN  IF board[a] # Null /\ board[a] = board[b] /\ board[a] = board[c]
             THEN [winner |-> board[a], winningLine |-> combination]
             ELSE checkCombinations(board, k + 1)

\* checkWinner with the tie test ahead of the combinations.
checkWinnerTieFirst(board) ==
    IF \A i \in Cells : board[i] # Null
    THEN [winner |-> "tie", winningLine |-> <<>>]
    ELSE checkCombinations(board, 1)

checkWinner(board) == checkCombinations(board, 1)

\* getAvailableMoves listing the null cells in descending order.
getAvailableMovesDescending(board) ==
    SelectSeq([k \in 1 .. 9 |-> IF board[9 - k] = Null THEN 9 - k ELSE -1],
              LAMBDA index : index # -1)

(* getAvailableMoves: map every cell to its index or -1, then filter out   *)
(* the -1 entries; the result lists the null cells in ascending order.     *)
getAvailableMoves(board) ==
    SelectSeq([k \in 1 .. 9 |-> IF board[k - 1] = Null THEN k - 1 ELSE -1],
              LAMBDA index : index # -1)

----------------------------------------------------------------------------
(* minimax.  The result is the returned number and the board as the call   *)
(* leaves it: every iteration writes board[move], recurses on the same     *)
(* array, writes null back, and only then updates the bounds and tests     *)
(* the cut-off.                                                            *)

RECURSIVE minimax(_, _, _, _, _)
RECURSIVE maximizingLoop(_, _, _, _, _, _, _)
RECURSIVE minimizingLoop(_, _, _, _, _, _, _)

\* maximizingLoop with the cut-off taken before the cell is written back.
maximizingLoopBreakFirst(board, depth, availableMoves, k, maxEval, alpha, beta) ==
    IF k > Len(availableMoves)
    THEN [value |-> maxEval, board |-> board]
    ELSE LET move == availableMoves[k]
             sub == minimax([board EXCEPT ![move] = "O"], depth + 1, FALSE, alpha, beta)
             undone == [sub.board EXCEPT ![move] = Null]
             newMax == Max(maxEval, sub.value)
             newAlpha == Max(alpha, sub.value)
         IN  IF beta <= newAlpha
             THEN [value |-> newMax, board |-> sub.board]
             ELSE maximizingLoop(undone, depth, availableMoves, k + 1, newMax, newAlpha, beta)

maximizingLoop(board, depth, availableMoves, k, maxEval, alpha, beta) ==
    IF k > Len(availableMoves)
    THEN [value |-> maxEval, board |-> board]
    ELSE LET move == availableMoves[k]
             sub == minimax([board EXCEPT ![move] = "O"], depth + 1, FALSE, alpha, beta)
             undone == [sub.board EXCEPT ![move] = Null]
             newMax == Max(maxEval, sub.value)
             newAlpha == Max(alpha, sub.value)
         IN  IF beta <= newAlpha
             THEN [value |-> newMax, board |-> undone]
             ELSE maximizingLoop(undone, depth, availableMoves, k + 1, newMax, newAlpha, beta)

\* minimizingLoop that stops after its first move.
minimizingLoopFirstOnly(board, depth, availableMoves, k, minEval, alpha, beta) ==
    IF k > Len(availableMoves)
    THEN [value |-> minEval, board |-> board]
    ELSE LET move == availableMoves[k]
             sub == minimax([board EXCEPT ![move] = "X"], depth + 1, TRUE, alpha, beta)
             undone == [sub.board EXCEPT ![move] = Null]
         IN  [value |-> Min(minEval, sub.value), board |-> undone]

minimizingLoop(board, depth, availableMoves, k, minEval, alpha, beta) ==
    IF k > Len(availableMoves)
    THEN [value |-> minEval, board |-> board]
    ELSE LET move == availableMoves[k]
             sub == minimax([board EXCEPT ![move] = "X"], depth + 1, TRUE, alpha, beta)
             undone == [sub.board EXCEPT ![move] = Null]
             newMin == Min(minEval, sub.value)
             newBeta == Min(beta, sub.value)
         IN  IF newBeta <= alpha
             THEN [value |-> newMin, board |-> undone]
             ELSE minimizingLoop(undone, depth, availableMoves, k + 1, newMin, alpha, newBeta)

\* minimax scoring every win 10 and every loss -10, whatever the depth.
minimaxFlatScore(board, depth, isMaximizing, alpha, beta) ==
    LET winner == checkWinner(board).winner
    IN  IF winner = "O" THEN [value |-> 10, board |-> board]
        ELSE IF winner = "X" THEN [value |-> -10, board |-> board]
        ELSE IF winner = "tie" THEN [value |-> 0, board |-> board]
        ELSE IF isMaximizing
             THEN maximizingLoop(board, depth, getAvailableMoves(board), 1, -Infinity, alpha, beta)
             ELSE minimizingLoop(board, depth, getAvailableMoves(board), 1, Infinity, alpha, beta)

\* minimax scoring a win of X like a win of O.
minimaxSameScore(board, depth, isMaximizing, alpha, beta) ==
    LET winner == checkWinner(board).winner
    IN  IF winner = "O" THEN [value |-> 10 - depth, board |-> board]
        ELSE IF winner = "X" THEN [value |-> 10 - depth, board |-> board]
        ELSE IF winner = "tie" THEN [value |-> 0, board |-> board]
        ELSE IF isMaximizing
             THEN maximizingLoop(board, depth, getAvailableMoves(board), 1, -Infinity, alpha, beta)
             ELSE minimizingLoop(board, depth, getAvailableMoves(board), 1, Infinity, alpha, beta)

minimax(board, depth, isMaximizing, alpha, beta) ==
    LET winner == checkWinner(board).winner
    IN  IF winner = "O" THEN [value |-> 10 - depth, board |-> board]
        ELSE IF winner = "X" THEN [value |-> depth - 10, board |-> board]
        ELSE IF winner = "tie" THEN [value |-> 0, board |-> board]
        ELSE IF isMaximizing
             THEN maximizingLoop(board, depth, getAvailableMoves(board), 1, -Infinity, alpha, beta)
             ELSE minimizingLoop(board, depth, getAvailableMoves(board), 1, Infinity, alpha, beta)

----------------------------------------------------------------------------
(* getBestMove.  Math.random() returns r / RandomSteps for a numerator r   *)
(* in 0 .. RandomSteps - 1; r1 is the value the first call of Math.random  *)
(* returns and r2 the value of the second.  The thresholds 0.7 and 0.3 are *)
(* kept in tenths.                                                         *)

RandomSteps == 4

Random == 0 .. RandomSteps - 1

EasyRandomTenths == 7

MediumRandomTenths == 3

Difficulty == {"easy", "medium", "hard"}

\* array[index] of JavaScript: undefined outside the array's indices.
At(array, index) ==
    IF index + 1 \in 1 .. Len(array) THEN array[index + 1] ELSE Undefined

\* randomMove scaled by the length of the board.
randomMoveBoardLength(availableMoves, r) ==
    At(availableMoves, (r * 9) \div RandomSteps)

\* availableMoves[Math.floor(Math.random() * availableMoves.length)]
randomMove(availableMoves, r) ==
    At(availableMoves, (r * Len(availableMoves)) \div RandomSteps)

\* takesRandom with the easy test applied at every difficulty but medium.
takesRandomUnlessMedium(difficulty, r1) ==
    \/ difficulty # "medium" /\ 10 * r1 < EasyRandomTenths * RandomSteps
    \/ difficulty = "medium" /\ 10 * r1 < MediumRandomTenths * RandomSteps

\* The test that guards the early return: Math.random() < 0.7 at easy,
\* Math.random() < 0.3 at medium; hard has no such test.
takesRandom(difficulty, r1) ==
    \/ difficulty = "easy" /\ 10 * r1 < EasyRandomTenths * RandomSteps
    \/ difficulty = "medium" /\ 10 * r1 < MediumRandomTenths * RandomSteps

\* How many times one call of getBestMove calls Math.random().
randomCalls(difficulty, r1) ==
    IF difficulty = "hard" THEN 0
    ELSE IF takesRandom(difficulty, r1) THEN 2 ELSE 1

RECURSIVE bestMoveLoop(_, _, _, _, _)
\* bestMoveLoop with < in place of >.
bestMoveLoopLess(board, availableMoves, k, bestMove, bestValue) ==
    IF k > Len(availableMoves)
    THEN [value |-> bestMove, board |-> board]
    ELSE LET move == availableMoves[k]
             sub == minimax([board EXCEPT ![move] = "O"], 0, FALSE, -Infinity, Infinity)
             undone == [sub.board EXCEPT ![move] = Null]
         IN  IF sub.value < bestValue
             THEN bestMoveLoop(undone, availableMoves, k + 1, move, sub.value)
             ELSE bestMoveLoop(undone, availableMoves, k + 1, bestMove, bestValue)

\* bestMoveLoop that evaluates each cell as if O moved again after it.
bestMoveLoopMovesAgain(board, availableMoves, k, bestMove, bestValue) ==
    IF k > Len(availableMoves)
    THEN [value |-> bestMove, board |-> board]
    ELSE LET move == availableMoves[k]
             sub == minimax([board EXCEPT ![move] = "O"], 0, TRUE, -Infinity, Infinity)
             undone == [sub.board EXCEPT ![move] = Null]
         IN  IF sub.value > bestValue
             THEN bestMoveLoop(undone, availableMoves, k + 1, move, sub.value)
             ELSE bestMoveLoop(undone, availableMoves, k + 1, bestMove, bestValue)

\* bestMoveLoop with >= in place of >.
bestMoveLoopLastWins(board, availableMoves, k, bestMove, bestValue) ==
    IF k > Len(availableMoves)
    THEN [value |-> bestMove, board |-> board]
    ELSE LET move == availableMoves[k]
             sub == minimax([board EXCEPT ![move] = "O"], 0, FALSE, -Infinity, Infinity)
             undone == [sub.board EXCEPT ![move] = Null]
         IN  IF sub.value >= bestValue
             THEN bestMoveLoop(undone, availableMoves, k + 1, move, sub.value)
             ELSE bestMoveLoop(undone, availableMoves, k + 1, bestMove, bestValue)

bestMoveLoop(board, availableMoves, k, bestMove, bestValue) ==
    IF k > Len(availableMoves)
    THEN [value |-> bestMove, board |-> board]
    ELSE LET move == availableMoves[k]
             sub == minimax([board EXCEPT ![move] = "O"], 0, FALSE, -Infinity, Infinity)
             undone == [sub.board EXCEPT ![move] = Null]
         IN  IF sub.value > bestValue
             THEN bestMoveLoop(undone, availableMoves, k + 1, move, sub.value)
             ELSE bestMoveLoop(undone, availableMoves, k + 1, bestMove, bestValue)

getBestMove(board, difficulty, r1, r2) ==
    LET availableMoves == getAvailableMoves(board)
    IN  IF takesRandom(difficulty, r1)
        THEN [value |-> randomMove(availableMoves, r2), board |-> board]
        ELSE bestMoveLoop(board, availableMoves, 1, At(availableMoves, 0), -Infinity)

----------------------------------------------------------------------------
(* makeMove: ignored on an occupied cell or a finished game; otherwise the *)
(* current player's mark goes on a copy of the board, the outcome is       *)
(* evaluated on the copy, the turn passes and the outcome's score counts.  *)
(* An index that is no cell (undefined) reads as an empty cell and writes  *)
(* no cell.  The callback reads board, winner and currentPlayer of the     *)
(* render that created it (closure); the state updater flips the turn and  *)
(* counts the score on the state it is handed (prev).                      *)

\* makeMove with the turn left to the player who moved.
makeMoveKeepsTurn(closure, prev, index) ==
    IF (index \in Cells /\ closure.board[index] # Null) \/ closure.winner # Null
    THEN prev
    ELSE LET newBoard == IF index \in Cells
                         THEN [closure.board EXCEPT ![index] = closure.currentPlayer]
                         ELSE closure.board
             outcome == checkWinner(newBoard)
             key == IF outcome.winner = "tie" THEN "ties" ELSE outcome.winner
         IN  [prev EXCEPT
                !.board = newBoard,
                !.winner = outcome.winner,
                !.winningLine = outcome.winningLine,
                !.scores = IF outcome.winner # Null
                           THEN [prev.scores EXCEPT ![key] = @ + 1]
                           ELSE prev.scores]

makeMove(closure, prev, index) ==
    IF (index \in Cells /\ closure.board[index] # Null) \/ closure.winner # Null
    THEN prev
    ELSE LET newBoard == IF index \in Cells
                         THEN [closure.board EXCEPT ![index] = closure.currentPlayer]
                         ELSE closure.board
             outcome == checkWinner(newBoard)
             key == IF outcome.winner = "tie" THEN "ties" ELSE outcome.winner
         IN  [prev EXCEPT
                !.board = newBoard,
                !.currentPlayer = IF prev.currentPlayer = "X" THEN "O" ELSE "X",
                !.winner = outcome.winner,
                !.winningLine = outcome.winningLine,
                !.scores = IF outcome.winner # Null
                           THEN [prev.scores EXCEPT ![key] = @ + 1]
                           ELSE prev.scores]

----------------------------------------------------------------------------
(* The engine's functions applied to an input board.  Each behaviour draws *)
(* a board and makes one call; call holds the arguments and ret what the   *)
(* call returned and the board as the call left it.  A draw that the call  *)
(* does not make is 0.  No statement of getBestMove throws, and reading an *)
(* array outside its indices does not throw: every call returns, which     *)
(* ret.threw records.                                                      *)

MaxEmpty == 2

MaxSearchEmpty == 5

MaxPruneEmpty == 3

Depths == {0, 1}

Alphas == {-Infinity, 0}

Betas == {0, Infinity}

emptyCount(board) == Cardinality({i \in Cells : board[i] = Null})

markCount(board, mark) == Cardinality({i \in Cells : board[i] = mark})

EngineBoards == {b \in Boards : emptyCount(b) <= MaxEmpty}

SearchBoards == {b \in Boards : emptyCount(b) <= MaxSearchEmpty}

PruneBoards == {b \in Boards : emptyCount(b) <= MaxPruneEmpty}

\* Boards of alternating play that X started, not over, O to move.
PlayBoards ==
    {b \in Boards : /\ markCount(b, "X") = markCount(b, "O") + 1
                    /\ checkWinner(b).winner = Null}

InitWith(boards) ==
    /\ gameState = initialState
    /\ input \in boards
    /\ call = [fn |-> "none"]
    /\ ret = [fn |-> "none"]
    /\ timers = <<>>

drawsMade(difficulty, r1, r2) ==
    /\ randomCalls(difficulty, r1) < 1 => r1 = 0
    /\ randomCalls(difficulty, r1) < 2 => r2 = 0

GetBestMoveCall(difficulty, r1, r2) ==
    /\ call.fn = "none"
    /\ LET result == getBestMove(input, difficulty, r1, r2)
       IN  /\ call' = [fn |-> "getBestMove", difficulty |-> difficulty, r1 |-> r1, r2 |-> r2]
           /\ ret' = [fn |-> "getBestMove", value |-> result.value, board |-> result.board,
                      threw |-> FALSE]
    /\ UNCHANGED <<gameState, input, timers>>

CallCheckWinner ==
    /\ call.fn = "none"
    /\ LET result == checkWinner(input)
       IN  /\ call' = [fn |-> "checkWinner"]
           /\ ret' = [fn |-> "checkWinner", winner |-> result.winner,
                      winningLine |-> result.winningLine]
    /\ UNCHANGED <<gameState, input, timers>>

CallMinimax ==
    /\ call.fn = "none"
    /\ \E depth \in Depths, isMaximizing \in BOOLEAN, alpha \in Alphas, beta \in Betas :
          LET result == minimax(input, depth, isMaximizing, alpha, beta)
          IN  /\ call' = [fn |-> "minimax", depth |-> depth, isMaximizing |-> isMaximizing,
                          alpha |-> alpha, beta |-> beta]
              /\ ret' = [fn |-> "minimax", value |-> result.value, board |-> result.board]
    /\ UNCHANGED <<gameState, input, timers>>

\* minimax called as getBestMove and minimax itself call it, alpha and beta
\* left to their defaults.
CallMinimaxDefault ==
    /\ call.fn = "none"
    /\ \E depth \in Depths, isMaximizing \in BOOLEAN :
          LET result == minimax(input, depth, isMaximizing, -Infinity, Infinity)
          IN  /\ call' = [fn |-> "minimax", depth |-> depth, isMaximizing |-> isMaximizing,
                          alpha |-> -Infinity, beta |-> Infinity]
              /\ ret' = [fn |-> "minimax", value |-> result.value, board |-> result.board]
    /\ UNCHANGED <<gameState, input, timers>>

CallGetBestMove ==
    \E difficulty \in Difficulty, r1 \in Random, r2 \in Random :
        /\ drawsMade(difficulty, r1, r2)
        /\ GetBestMoveCall(difficulty, r1, r2)

CallSearch == GetBestMoveCall("hard", 0, 0)

CallHard == \E r1 \in Random, r2 \in Random : GetBestMoveCall("hard", r1, r2)

\* checkWinner on every board.
InitEval == InitWith(Boards)

NextEval == CallCheckWinner

SpecEval == InitEval /\ [][NextEval]_vars

\* minimax and getBestMove, every argument, on the boards of EngineBoards.
InitEngine == InitWith(EngineBoards)

NextEngine == CallMinimax \/ CallGetBestMove

SpecEngine == InitEngine /\ [][NextEngine]_vars

\* getBestMove at hard under every pair of draws.
InitHard == InitWith(EngineBoards)

NextHard == CallHard

SpecHard == InitHard /\ [][NextHard]_vars

\* The search of getBestMove on the boards of SearchBoards and on the empty
\* board.
InitSearch == InitWith(SearchBoards \cup {emptyBoard})

NextSearch == CallSearch

SpecSearch == InitSearch /\ [][NextSearch]_vars

\* minimax with its default window on the boards of PruneBoards.
InitPrune == InitWith(PruneBoards)

NextPrune == CallMinimaxDefault

SpecPrune == InitPrune /\ [][NextPrune]_vars

----------------------------------------------------------------------------
(* The page.  Every handler replaces the game state, the page renders and  *)
(* the computer-move effect runs before the next event is handled (React   *)
(* renders a click's state change and runs its effects within the click).  *)
(* The effect runs again only when one of its dependencies changed: it     *)
(* then clears the timer it set before and, when it is O's turn in an      *)
(* unfinished game against the computer, sets a new one.  timers lists the *)
(* timers that are set and have neither fired nor been cleared.  A timer   *)
(* holds the game state of the render that set it: its callback reads the  *)
(* board and the difficulty from there and calls that render's makeMove.   *)
(* Its cleanup flag tells that it is the timer which the cleanup of the    *)
(* latest run of the effect clears.                                        *)

MaxGames == 1

Modes == {"pvp", "pvc"}

\* resetGame with the turn left as it is.
resetGameKeepsTurn(prev) ==
    [initialState EXCEPT !.currentPlayer = prev.currentPlayer,
                         !.gameMode = prev.gameMode,
                         !.difficulty = prev.difficulty,
                         !.scores = prev.scores]

\* resetGame with the score counters set to 0.
resetGameClearsScores(prev) ==
    [initialState EXCEPT !.gameMode = prev.gameMode,
                         !.difficulty = prev.difficulty]

resetGame(prev) ==
    [initialState EXCEPT !.gameMode = prev.gameMode,
                         !.difficulty = prev.difficulty,
                         !.scores = prev.scores]

resetScores(prev) == [prev EXCEPT !.scores = [X |-> 0, O |-> 0, ties |-> 0]]

\* setGameMode with the winner left as it is.
setGameModeKeepsWinner(prev, mode) ==
    [initialState EXCEPT !.winner = prev.winner,
                         !.gameMode = mode,
                         !.difficulty = prev.difficulty,
                         !.scores = prev.scores]

setGameMode(prev, mode) ==
    [initialState EXCEPT !.gameMode = mode,
                         !.difficulty = prev.difficulty,
                         !.scores = prev.scores]

setDifficulty(prev, diff) == [prev EXCEPT !.difficulty = diff]

\* computerTurn without the test of the winner.
computerTurnIgnoresWinner(state) ==
    /\ state.gameMode = "pvc"
    /\ state.currentPlayer = "O"

computerTurn(state) ==
    /\ state.gameMode = "pvc"
    /\ state.currentPlayer = "O"
    /\ state.winner = Null

\* makeMove is created anew when board, winner, currentPlayer or gameMode
\* changed, getBestMove never.
depsChanged(prev, next) ==
    \/ prev.currentPlayer # next.currentPlayer
    \/ prev.gameMode # next.gameMode
    \/ prev.board # next.board
    \/ prev.winner # next.winner
    \/ prev.difficulty # next.difficulty

\* clearTimeout(timer) of the latest run of the effect.
clearTimeout(pending) == SelectSeq(pending, LAMBDA t : ~t.cleanup)

\* computerMoveEffect without the cleanup.
computerMoveEffectNoCleanup(prev, next, pending) ==
    IF ~depsChanged(prev, next)
    THEN pending
    ELSE IF computerTurn(next)
    THEN Append(pending, [gameState |-> next, cleanup |-> TRUE])
    ELSE pending

\* The timers after the render of next that follows prev, pending being
\* the timers before it.
computerMoveEffect(prev, next, pending) ==
    IF ~depsChanged(prev, next)
    THEN pending
    ELSE IF computerTurn(next)
    THEN Append(clearTimeout(pending), [gameState |-> next, cleanup |-> TRUE])
    ELSE clearTimeout(pending)

\* The score counters are capped: a game is begun, by the first mark on an
\* empty board, only while fewer than MaxGames games are counted.
gamesCounted(state) == state.scores.X + state.scores.O + state.scores.ties

mayBegin(state) == state.board = emptyBoard => gamesCounted(state) < MaxGames

cellDisabled(state, index) ==
    \/ state.board[index] # Null
    \/ state.winner # Null
    \/ (state.gameMode = "pvc" /\ state.currentPlayer = "O")

\* The state becomes next, the page renders, the effect runs.
Render(next, pending) ==
    /\ gameState' = next
    /\ timers' = computerMoveEffect(gameState, next, pending)
    /\ UNCHANGED <<input, call, ret>>

\* A click on a cell the page leaves enabled.
HumanMove(index) ==
    /\ ~cellDisabled(gameState, index)
    /\ mayBegin(gameState)
    /\ Render(makeMove(gameState, gameState, index), timers)

\* pending without its k-th timer.
without(pending, k) == SubSeq(pending, 1, k - 1) \o SubSeq(pending, k + 1, Len(pending))

\* A timer fires: its callback asks getBestMove for a cell and plays it.
ComputerMove ==
    \E k \in 1 .. Len(timers), r1 \in Random, r2 \in Random :
        LET closure == timers[k].gameState
        IN  /\ drawsMade(closure.difficulty, r1, r2)
            /\ LET bestMove == getBestMove(closure.board, closure.difficulty, r1, r2).value
               IN  Render(makeMove(closure, gameState, bestMove), without(timers, k))

ResetGame == Render(resetGame(gameState), timers)

ResetScores == Render(resetScores(gameState), timers)

SetGameMode(mode) == Render(setGameMode(gameState, mode), timers)

\* The difficulty buttons are on the page in a game against the computer.
SetDifficulty(diff) ==
    /\ gameState.gameMode = "pvc"
    /\ Render(setDifficulty(gameState, diff), timers)

\* A game against the computer at hard, taken up at any board of PlayBoards.
InitPlay ==
    /\ input \in PlayBoards
    /\ gameState = [initialState EXCEPT !.board = input, !.currentPlayer = "O",
                                        !.gameMode = "pvc", !.difficulty = "hard"]
    /\ call = [fn |-> "none"]
    /\ ret = [fn |-> "none"]
    /\ timers = <<[gameState |-> gameState, cleanup |-> TRUE]>>

NextPlay == ComputerMove \/ \E index \in Cells : HumanMove(index)

SpecPlay == InitPlay /\ [][NextPlay]_vars

\* A game against the computer at hard from the empty board: the page after
\* setGameMode('pvc') and setDifficulty('hard'), then moves only.
InitHardGame ==
    /\ gameState = setDifficulty(setGameMode(initialState, "pvc"), "hard")
    /\ input = emptyBoard
    /\ call = [fn |-> "none"]
    /\ ret = [fn |-> "none"]
    /\ timers = <<>>

NextHardGame == ComputerMove \/ \E index \in Cells : HumanMove(index)

SpecHardGame == InitHardGame /\ [][NextHardGame]_vars

\* The page from its first render.
Init == InitWith({emptyBoard})

Next ==
    \/ \E index \in Cells : HumanMove(index)
    \/ ComputerMove
    \/ ResetGame
    \/ ResetScores
    \/ \E mode \in Modes : SetGameMode(mode)
    \/ \E diff \in Difficulty : SetDifficulty(diff)

Spec == Init /\ [][Next]_vars

----------------------------------------------------------------------------
(* Properties *)

isCell(v) == v \in Cells

noCombination(board) ==
    \A k \in 1 .. Len(winningCombinations) :
        LET combination == winningCombinations[k]
        IN  ~(/\ board[combination[1]] # Null
              /\ board[combination[1]] = board[combination[2]]
              /\ board[combination[1]] = board[combination[3]])

\* X, moving as it likes, wins against every play of O from board, toMove
\* to move: the game-theoretic value of the position, by full enumeration.
RECURSIVE humanForcesWin(_, _)
humanForcesWin(board, toMove) ==
    IF ~noCombination(board)
    THEN \E k \in 1 .. Len(winningCombinations) :
            \A j \in 1 .. 3 : board[winningCombinations[k][j]] = "X"
    ELSE IF toMove = "X"
    THEN \E i \in Cells :
            board[i] = Null /\ humanForcesWin([board EXCEPT ![i] = "X"], "O")
    ELSE /\ \E i \in Cells : board[i] = Null
         /\ \A i \in Cells :
               board[i] = Null => humanForcesWin([board EXCEPT ![i] = "O"], "X")

\* C1 (as stated): from every board of alternating play with O to move and
\* the game not over, O playing getBestMove at hard from then on, no
\* continuation ends with X as the winner.
NoForcedLoss == gameState.winner # "X"

\* C1 (amended): the same, from every such board from which X cannot force
\* a win: X ends as the winner only where the starting board was already
\* lost for O against best play.
NoLossUnlessForced ==
    gameState.winner = "X" => humanForcesWin(input, "O")

\* A game taken up six cells from the end on a board that is not lost for
\* O, played to its end.
NoLossUnlessForcedWitness ==
    /\ gameState.winner # Null
    /\ emptyCount(input) = 6
    /\ emptyCount(gameState.board) <= 1
    /\ ~humanForcesWin(input, "O")

ScenarioBoard ==
    [i \in Cells |-> IF i \in {0, 1} THEN "X" ELSE IF i \in {3, 4} THEN "O" ELSE Null]

\* C2 (as stated): on the board [X, X, -, O, O, -, -, -, -] getBestMove at
\* hard returns index 2, the cell that blocks X's row 0.
ScenarioReturnsBlock ==
    (call.fn = "getBestMove" /\ input = ScenarioBoard) => ret.value = 2

\* C2 (amended): on that board getBestMove at hard returns index 5, the
\* cell that completes O's row 1 and wins at once.
ScenarioReturnsWin ==
    (call.fn = "getBestMove" /\ input = ScenarioBoard) => ret.value = 5

ScenarioWitness ==
    call.fn = "getBestMove" /\ call.difficulty = "hard" /\ input = ScenarioBoard

\* C3: when minimax or getBestMove returns, every cell of the board passed
\* in holds the value it held before the call, cut-offs included.
BoardRestored ==
    call.fn \in {"minimax", "getBestMove"} => ret.board = input

\* A call of minimax whose window is empty from the start, so that its
\* loop is cut off after the first of at least two moves.
BoardRestoredWitness ==
    /\ call.fn = "minimax"
    /\ call.isMaximizing
    /\ call.alpha = 0
    /\ call.beta = 0
    /\ emptyCount(input) >= 2
    /\ checkWinner(input).winner = Null

\* C4: at hard the index getBestMove returns is the same whatever the
\* random source would produce: under any two draws it is the index
\* returned under the draws 0, 0.
DeterminismAtHard ==
    (call.fn = "getBestMove" /\ call.difficulty = "hard")
        => ret.value = getBestMove(input, "hard", 0, 0).value

\* A draw that takes the random branch at easy and picks the last empty
\* cell there, made at hard on a board where the search picks another.
DeterminismAtHardWitness ==
    /\ call.fn = "getBestMove"
    /\ call.difficulty = "hard"
    /\ call.r1 = 0
    /\ call.r2 = RandomSteps - 1
    /\ emptyCount(input) >= 2
    /\ ret.value # getBestMove(input, "easy", call.r1, call.r2).value

TieBoard ==
    [i \in Cells |-> IF i \in {3, 7} THEN "X" ELSE IF i \in {6, 8} THEN "O" ELSE Null]

\* C5: on a board with an empty cell, the index the search branch returns
\* is the lowest empty cell among those whose score (minimax after O is
\* placed there, depth 0, minimizing, full window) is the greatest.
LowestBestMove ==
    (/\ call.fn = "getBestMove"
     /\ ~takesRandom(call.difficulty, call.r1)
     /\ emptyCount(input) >= 1)
        => LET empty == {i \in Cells : input[i] = Null}
               score == [i \in empty |->
                           minimax([input EXCEPT ![i] = "O"], 0, FALSE, -Infinity, Infinity).value]
           IN  /\ ret.value \in empty
               /\ \A j \in empty : score[j] <= score[ret.value]
               /\ \A j \in empty : j < ret.value => score[j] < score[ret.value]

\* The search on a board whose cells 2 and 4 share the greatest score, 8,
\* above the lower cells 0 and 1.
LowestBestMoveWitness ==
    /\ call.fn = "getBestMove"
    /\ ~takesRandom(call.difficulty, call.r1)
    /\ input = TieBoard
    /\ ret.value = 2

lineBoard(k, mark) ==
    [i \in Cells |-> IF \E j \in 1 .. 3 : winningCombinations[k][j] = i THEN mark ELSE Null]

\* C6: for each of the 8 combinations and each mark, checkWinner on the
\* board holding the mark in exactly the three cells of the combination
\* returns that mark and that combination.
WinDetection ==
    call.fn = "checkWinner"
        => \A k \in 1 .. 8, mark \in Marks :
              input = lineBoard(k, mark)
                  => /\ ret.winner = mark
                     /\ ret.winningLine = winningCombinations[k]

WinDetectionWitness ==
    /\ call.fn = "checkWinner"
    /\ input = lineBoard(8, "O")
    /\ ret.winningLine = <<2, 4, 6>>

\* C7: on a board where no combination holds three equal marks,
\* checkWinner returns tie exactly when no cell is empty and null exactly
\* when some cell is empty.
TieAndInProgress ==
    (call.fn = "checkWinner" /\ noCombination(input))
        => /\ ret.winner = "tie" <=> emptyCount(input) = 0
           /\ ret.winner = Null <=> emptyCount(input) >= 1

TieAndInProgressWitness ==
    /\ call.fn = "checkWinner"
    /\ noCombination(input)
    /\ emptyCount(input) = 0
    /\ ret.winner = "tie"

\* C8: on a full board where some combination holds three equal marks,
\* checkWinner returns a mark and a combination whose three cells hold
\* that mark, never tie.
WinBeforeTie ==
    (call.fn = "checkWinner" /\ emptyCount(input) = 0 /\ ~noCombination(input))
        => /\ ret.winner \in Marks
           /\ \E k \in 1 .. 8 : ret.winningLine = winningCombinations[k]
           /\ \A j \in 1 .. 3 : input[ret.winningLine[j]] = ret.winner

\* A game X wins with the ninth move: X X X / O O X / X O O.
WinBeforeTieWitness ==
    /\ call.fn = "checkWinner"
    /\ input = [i \in Cells |-> IF i \in {0, 1, 2, 5, 6} THEN "X" ELSE "O"]
    /\ ret.winner = "X"

\* C9: on a board that is not over, at every difficulty and on either
\* branch, getBestMove returns the index of a cell that is empty on the
\* input board.
LegalResult ==
    (call.fn = "getBestMove" /\ checkWinner(input).winner = Null)
        => isCell(ret.value) /\ input[ret.value] = Null

\* The random branch at medium picking the last of the empty cells.
LegalResultWitness ==
    /\ call.fn = "getBestMove"
    /\ call.difficulty = "medium"
    /\ takesRandom(call.difficulty, call.r1)
    /\ call.r2 = RandomSteps - 1
    /\ checkWinner(input).winner = Null
    /\ emptyCount(input) = MaxEmpty
    /\ \A i \in Cells : input[i] = Null => i <= ret.value

\* C10: called on a board with no empty cell, getBestMove signals a fault
\* and returns no value to the caller.
FaultOnFullBoard ==
    (call.fn = "getBestMove" /\ emptyCount(input) = 0) => ret.threw
\* C11: whenever a timer of the page can fire, the board its callback
\* hands to getBestMove has an empty cell and checkWinner reports neither
\* a winner nor a tie on it.
PreconditionAtFire ==
    \A k \in 1 .. Len(timers) :
        LET board == timers[k].gameState.board
        IN  /\ emptyCount(board) >= 1
            /\ checkWinner(board).winner = Null

\* A timer is set at easy on a board with two empty cells left.
PreconditionAtFireWitness ==
    /\ Len(timers) = 1
    /\ timers[1].gameState.difficulty = "easy"
    /\ emptyCount(timers[1].gameState.board) = 2

\* C12: from a state with a winner or a tie, a step leaves board,
\* currentPlayer, winner and winningLine as they are, or it is resetGame or
\* setGameMode and leaves an empty board, X to move and no outcome.
TerminalAbsorbing ==
    [][gameState.winner # Null =>
          \/ /\ gameState'.board = gameState.board
             /\ gameState'.currentPlayer = gameState.currentPlayer
             /\ gameState'.winner = gameState.winner
             /\ gameState'.winningLine = gameState.winningLine
          \/ /\ \/ gameState' = resetGame(gameState)
                \/ \E mode \in Modes : gameState' = setGameMode(gameState, mode)
             /\ gameState'.board = emptyBoard
             /\ gameState'.currentPlayer = "X"
             /\ gameState'.winner = Null
             /\ gameState'.winningLine = <<>>]_vars

\* A game has ended and been counted, and the board is empty again.
TerminalAbsorbingWitness ==
    /\ gameState.board = emptyBoard
    /\ gameState.winner = Null
    /\ gamesCounted(gameState) = 1

\* C13: in every state of the page, in a game of two players and in a game
\* against the computer, the board holds as many X as O or one X more.
MarkBalance ==
    LET difference == markCount(gameState.board, "X") - markCount(gameState.board, "O")
    IN  difference \in {0, 1}

\* A game against the computer in which the computer has moved twice and X
\* has just made a third move.
MarkBalanceWitness ==
    /\ gameState.gameMode = "pvc"
    /\ markCount(gameState.board, "X") = 3
    /\ markCount(gameState.board, "O") = 2

\* C14: on the empty board getBestMove at hard, which makes no draw, returns
\* the same index on every call, the corner 0, which is one of the corners
\* and the centre 0, 2, 4, 6, 8.
EmptyBoardOpening ==
    (call.fn = "getBestMove" /\ call.difficulty = "hard" /\ input = emptyBoard) =>
        /\ ret.value \in {0, 2, 4, 6, 8}
        /\ ret.value = 0

\* getBestMove at hard has returned a cell on the empty board.
EmptyBoardOpeningWitness ==
    /\ call.fn = "getBestMove"
    /\ call.difficulty = "hard"
    /\ input = emptyBoard
    /\ isCell(ret.value)

\* The value of board by plain minimax over the scores 10 - depth,
\* depth - 10 and 0 of checkWinner's outcomes: every empty cell is tried,
\* no bound is kept.
RECURSIVE plainMinimax(_, _, _)
plainMinimax(board, depth, isMaximizing) ==
    LET winner == checkWinner(board).winner
    IN  IF winner = "O" THEN 10 - depth
        ELSE IF winner = "X" THEN depth - 10
        ELSE IF winner = "tie" THEN 0
        ELSE LET values ==
                     {plainMinimax([board EXCEPT ![i] = IF isMaximizing THEN "O" ELSE "X"],
                                   depth + 1, ~isMaximizing) :
                         i \in {c \in Cells : board[c] = Null}}
             IN  IF isMaximizing
                 THEN CHOOSE v \in values : \A w \in values : v >= w
                 ELSE CHOOSE v \in values : \A w \in values : v <= w

\* C15: minimax called with the window -Infinity .. Infinity returns the
\* value plain minimax gives the board, at every depth and for both turns.
PruningPreservesValue ==
    (call.fn = "minimax" /\ call.alpha = -Infinity /\ call.beta = Infinity) =>
        ret.value = plainMinimax(input, call.depth, call.isMaximizing)

\* X to move on a board with three empty cells: minimax visits 10 positions
\* where plain minimax visits 14.
CutOffBoard ==
    [i \in Cells |-> << Null, Null, Null, "O", "O", "X", "X", "X", "O" >>[i + 1]]

\* minimax has returned on CutOffBoard, cells skipped, with its value 0.
PruningPreservesValueWitness ==
    /\ call.fn = "minimax"
    /\ call.alpha = -Infinity
    /\ call.beta = Infinity
    /\ ~call.isMaximizing
    /\ input = CutOffBoard
    /\ ret.value = 0

\* The empty cells of board that complete a combination for mark.
completingCells(board, mark) ==
    {i \in Cells :
        /\ board[i] = Null
        /\ \E k \in 1 .. Len(winningCombinations) :
              /\ \E j \in 1 .. 3 : winningCombinations[k][j] = i
              /\ \A j \in 1 .. 3 : \/ winningCombinations[k][j] = i
                                   \/ board[winningCombinations[k][j]] = mark}

\* C16: on a board without a winner on which some empty cell completes a
\* combination for O, getBestMove at hard returns the least such cell.
WinSooner ==
    (/\ call.fn = "getBestMove"
     /\ call.difficulty = "hard"
     /\ noCombination(input)
     /\ completingCells(input, "O") # {}) =>
        /\ ret.value \in completingCells(input, "O")
        /\ \A i \in completingCells(input, "O") : ret.value <= i

\* getBestMove at hard has returned on a board where two cells win for O, a
\* lower empty cell does not, and X threatens to win as well.
WinSoonerWitness ==
    /\ call.fn = "getBestMove"
    /\ call.difficulty = "hard"
    /\ noCombination(input)
    /\ Cardinality(completingCells(input, "O")) = 2
    /\ completingCells(input, "X") \ completingCells(input, "O") # {}
    /\ \E i \in Cells : input[i] = Null /\ i < ret.value
    /\ ret.value \in completingCells(input, "O")

\* C17: in a game against the computer at hard from the empty board no
\* state has winner X, and a state in which no cell can be clicked and no
\* timer is set has winner O or tie.
HardGameNeverLost ==
    /\ gameState.winner # "X"
    /\ (timers = <<>> /\ \A index \in Cells : cellDisabled(gameState, index)) =>
          gameState.winner \in {"O", "tie"}

\* The human has played five cells and the game is a tie.
HardGameNeverLostWitness ==
    /\ gameState.winner = "tie"
    /\ markCount(gameState.board, "X") = 5
    /\ markCount(gameState.board, "O") = 4

\* C18: at most one timer is set at any time, and a timer that is set can
\* fire only in a game against the computer with O to move and no winner,
\* its callback holding the board, the turn and the mode of the page as
\* they are then: no timer outlives a reset or a change of mode.
OneCurrentTimer ==
    /\ Len(timers) <= 1
    /\ \A k \in 1 .. Len(timers) :
          LET closure == timers[k].gameState
          IN  /\ gameState.gameMode = "pvc"
              /\ gameState.currentPlayer = "O"
              /\ gameState.winner = Null
              /\ closure.board = gameState.board
              /\ closure.currentPlayer = gameState.currentPlayer
              /\ closure.winner = gameState.winner
              /\ closure.difficulty = gameState.difficulty

\* A timer is set at hard at the computer's second turn of a game.
OneCurrentTimerWitness ==
    /\ Len(timers) = 1
    /\ gameState.difficulty = "hard"
    /\ emptyCount(gameState.board) = 6

\* C19: the stored winner and winningLine are those checkWinner gives the
\* stored board; winner is null exactly while no combination is complete
\* and a cell is empty, and the winningLine of a winner X or O names three
\* cells that hold its mark.
OutcomeStored ==
    /\ gameState.winner = checkWinner(gameState.board).winner
    /\ gameState.winningLine = checkWinner(gameState.board).winningLine
    /\ gameState.winner = Null <=>
          (noCombination(gameState.board) /\ emptyCount(gameState.board) > 0)
    /\ gameState.winner \in Marks =>
          /\ Len(gameState.winningLine) = 3
          /\ \A j \in 1 .. 3 : gameState.board[gameState.winningLine[j]] = gameState.winner

\* The computer has won on the diagonal 2, 4, 6.
OutcomeStoredWitness ==
    /\ gameState.gameMode = "pvc"
    /\ gameState.winner = "O"
    /\ gameState.winningLine = <<2, 4, 6>>

====
